---------------------------- MODULE Spec2Model ----------------------------
(* The broadcast node of glomers (src/bin/broadcast.rs) on top of the      *)
(* MsgHandler runtime (src/lib.rs).                                        *)
(*                                                                         *)
(* Spec          one node under an arbitrary environment: any client       *)
(*               request, any gossip message from any source, ticks.       *)
(* ClusterSpec   every node of a small roster runs the program; gossip     *)
(*               travels over lossy links.  FairClusterSpec adds the       *)
(*               fairness of the timer and of the links.                   *)
(* TopoSpec      the peer graph that BroadcastNode::new builds for the     *)
(*               25-node roster, explored hop by hop with edges removed.   *)
(* AsyncClusterSpec  the same cluster on a network that also delays,       *)
(*               duplicates and reorders.                                  *)
(* RosterSpec    nodes of every roster n0..n(N-1) are started and build    *)
(*               their peer_data.                                          *)
(* RuntimeSpec   one node with the tasks of MsgHandler::run: the line      *)
(*               reader and the timer feed the channel, the consumer loop  *)
(*               drains it.                                                *)
EXTENDS Integers, Sequences, FiniteSets, TLC

VARIABLES
    nodes,    \* node id -> BroadcastNode {id, msg_id, seen_data, peer_data}
    proc,     \* node id -> "Running" | "Panicked" (the process of the node)
    event,    \* the last event the consumer loop handled
    sent,     \* the messages that event wrote to the output, in order
    acked,    \* node id -> datums whose broadcast request was handled
    net,      \* gossip messages in flight between the nodes of a cluster
    quiet,    \* TRUE once the clients have stopped sending broadcasts
    removed,  \* TopoSpec: the edges taken out of the peer graph
    origin,   \* TopoSpec: the node the exploration starts from
    reach,    \* TopoSpec: the nodes reached from origin so far
    hops,     \* TopoSpec: the number of hops explored so far
    input,    \* RuntimeSpec: the lines of standard input not yet read
    reader,   \* RuntimeSpec: the line reader task, "Reading" | "Ended" | "Panicked"
    queue,    \* RuntimeSpec: the events in the mpsc channel, oldest first
    enqueued, \* RuntimeSpec: every event sent into the channel so far, in order
    handled,  \* RuntimeSpec: every event the consumer loop has handled, in order
    roster    \* the node_ids of the init message

vars == <<nodes, proc, event, sent, acked, net, quiet, removed, origin, reach, hops,
          input, reader, queue, enqueued, handled, roster>>

nodeVars == <<nodes, proc, event, sent, acked, net, quiet>>
topoVars == <<removed, origin, reach, hops, roster>>
runVars == <<input, reader, queue, enqueued, handled>>

---------------------------------------------------------------------------
(* Bounds of the model.                                                    *)

\* datums are 1..MaxDatum in Spec
MaxDatum == 2
\* Spec stops handling events that would push msg_id past this
MaxMsgId == 5
\* RuntimeSpec reads at most this many lines after the handshake
MaxLines == 2
\* RosterSpec draws the roster n0 .. n(N - 1) for every N in 1..MaxRoster
MaxRoster == 25
\* RosterSpec starts at most this many nodes of the roster
MaxStarted == 2
\* ClusterSpec runs the nodes n0 .. n(ClusterSize - 1)
ClusterSize == 3
\* datums are 1..ClusterMaxDatum in ClusterSpec and AsyncClusterSpec
ClusterMaxDatum == 1
\* TopoSpec takes at most this many edges out of the peer graph
MaxRemoved == 2
\* TopoSpec explores the peer graph this many hops from the origin
MaxHops == 6

(* Program constants.                                                      *)
N_GROUPS == 5

---------------------------------------------------------------------------
(* Values.                                                                 *)

\* Option<usize>
None == <<>>
Some(x) == <<x>>

\* enum DatumStatus
SentUnconfirmed == "SentUnconfirmed"
ReceivedUnconfirmed == "ReceivedUnconfirmed"
Confirmed == "Confirmed"

\* HashMap::new() for a peer: no datum is tracked
EmptyMap == [d \in {} |-> SentUnconfirmed]

\* the label of the node with ordinal k, as Maelstrom names it
NodeName(k) == "n" \o ToString(k)

\* init's node_ids for a cluster of n nodes: n0 .. n(n-1)
Roster(n) == [i \in 1..n |-> NodeName(i - 1)]

Range(s) == {s[i] : i \in DOMAIN s}

\* the orders in which a HashMap/HashSet may be iterated
Orders(S) == {f \in [1..Cardinality(S) -> S] : \A i, j \in DOMAIN f : f[i] = f[j] => i = j}

---------------------------------------------------------------------------
(* Topology builder: node_num, node_group, BroadcastNode::new.             *)

\* value.split_at(1).1.parse::<u32>(): the number after the first character
node_num(value) == CHOOSE k \in 0..99 : value = NodeName(k)

node_group(value) == node_num(value) % N_GROUPS

\* the branch arm linking every branch five ordinals away, whatever the parity
IsPeer_any_offset(this_node_num, this_group, other_node) ==
    LET other_node_num == node_num(other_node)
        other_group == node_group(other_node)
    IN  IF this_node_num < N_GROUPS
        THEN \/ other_group = this_group
             \/ other_node_num = (5 + this_node_num + 1) % N_GROUPS
             \/ other_node_num = (5 + this_node_num - 1) % N_GROUPS
        ELSE \/ other_node_num = this_group
             \/ other_node_num = this_node_num + 5
             \/ other_node_num + 5 = this_node_num

\* the branch arm without its last clause: a branch looks five ordinals up only
IsPeer_one_way(this_node_num, this_group, other_node) ==
    LET other_node_num == node_num(other_node)
        other_group == node_group(other_node)
    IN  IF this_node_num < N_GROUPS
        THEN \/ other_group = this_group
             \/ other_node_num = (5 + this_node_num + 1) % N_GROUPS
             \/ other_node_num = (5 + this_node_num - 1) % N_GROUPS
        ELSE \/ other_node_num = this_group
             \/ (other_node_num = this_node_num + 5
                 /\ other_node_num % (2 * N_GROUPS) = this_group)

\* the condition under which new() inserts other_node into peer_data
IsPeer(this_node_num, this_group, other_node) ==
    LET other_node_num == node_num(other_node)
        other_group == node_group(other_node)
    IN  IF this_node_num < N_GROUPS
        THEN \/ other_group = this_group
             \/ other_node_num = (5 + this_node_num + 1) % N_GROUPS
             \/ other_node_num = (5 + this_node_num - 1) % N_GROUPS
        ELSE \/ other_node_num = this_group
             \/ (other_node_num = this_node_num + 5
                 /\ other_node_num % (2 * N_GROUPS) = this_group)
             \/ (other_node_num + 5 = this_node_num
                 /\ this_node_num % (2 * N_GROUPS) = this_group)

\* the key set new() gives peer_data
PeerSet(id, node_ids) ==
    {other_node \in Range(node_ids) : IsPeer(node_num(id), node_group(id), other_node)}

\* BroadcastNode::new(partial_node)
new(partial_node) ==
    [id |-> partial_node.id,
     msg_id |-> partial_node.msg_id,
     seen_data |-> {},
     peer_data |-> [p \in PeerSet(partial_node.id, partial_node.node_ids) |-> EmptyMap]]

---------------------------------------------------------------------------
(* Envelope: Message::response, MsgHandler::reply, send_msg.               *)

Message(src, dst, body) == [src |-> src, dst |-> dst, body |-> body]
Body(msg_id, in_reply_to, msg) == [msg_id |-> msg_id, in_reply_to |-> in_reply_to, msg |-> msg]

\* response with src and dst not swapped
response_unswapped(msg, body) == Message(msg.src, msg.dst, body)

\* Message::response: the reply goes from the request's dst to its src
response(msg, body) == Message(msg.dst, msg.src, body)

\* MsgHandler::reply followed by send_msg: one message out, msg_id + 1
reply(self, msg, rsp) ==
    [node |-> [self EXCEPT !.msg_id = @ + 1],
     out |-> <<response(msg, Body(Some(self.msg_id), msg.body.msg_id, rsp))>>,
     ok |-> TRUE]

---------------------------------------------------------------------------
(* Convergence tracker: BroadcastNode::handle_msg.                         *)

\* a broadcast that is acknowledged but not stored
record_local_dropped(seen_data, message) == seen_data

\* a broadcast that replaces the set instead of inserting into it
record_local_replacing(seen_data, message) == {message}

\* Broadcast arm: self.seen_data.insert(message)
record_local(seen_data, message) == seen_data \cup {message}

\* Read arm: the payload of read_ok, self.seen_data.clone()
read_payload(self) == [type |-> "read_ok", messages |-> self.seen_data]

\* insert(msg.src, HashMap::new()) in place of entry(..).or_insert(..): the
\* sender's map starts empty at every gossip message
entry_insert(peer_data, src) ==
    [p \in DOMAIN peer_data \cup {src} |->
        IF p # src THEN peer_data[p] ELSE EmptyMap]

\* Gossip arm: self.peer_data.entry(msg.src).or_insert(HashMap::new())
entry_or_insert(peer_data, src) ==
    [p \in DOMAIN peer_data \cup {src} |->
        IF p \in DOMAIN peer_data THEN peer_data[p] ELSE EmptyMap]

\* the first loop run over all of data_you_need, known datums included
new_data_unfiltered(data_you_need, seen_data) == data_you_need

\* Gossip arm: data_you_need.difference(&self.seen_data)
new_data(data_you_need, seen_data) == data_you_need \ seen_data

\* Gossip arm, first loop: every new datum is entered as ReceivedUnconfirmed
mark_received(peer_map, data) ==
    [d \in DOMAIN peer_map \cup data |->
        IF d \in data THEN ReceivedUnconfirmed ELSE peer_map[d]]

\* the second loop with entry(datum).or_insert(..) in place of get_mut(..).expect(..)
confirm_or_insert(peer_map, data_i_received_from_you) ==
    {[map |-> [d \in DOMAIN peer_map \cup data_i_received_from_you |->
                  IF d \in data_i_received_from_you THEN Confirmed ELSE peer_map[d]],
      ok |-> TRUE]}

\* Gossip arm, second loop: every datum of data_i_received_from_you becomes
\* Confirmed; get_mut(..).expect(..) panics at the first datum without an
\* entry, after the loop has confirmed those the HashSet yielded before it
confirm_received(peer_map, data_i_received_from_you) ==
    LET Confirm(S) == [d \in DOMAIN peer_map |->
                          IF d \in S THEN Confirmed ELSE peer_map[d]]
    IN  IF data_i_received_from_you \subseteq DOMAIN peer_map
        THEN {[map |-> Confirm(data_i_received_from_you), ok |-> TRUE]}
        ELSE {[map |-> Confirm(S), ok |-> FALSE] :
                 S \in SUBSET (data_i_received_from_you \cap DOMAIN peer_map)}

\* the Gossip arm without seen_data.extend(data)
record_gossip_unseen(self, src, data_you_need, data_i_received_from_you) ==
    LET peer_data == entry_or_insert(self.peer_data, src)
        data == new_data(data_you_need, self.seen_data)
        marked == mark_received(peer_data[src], data)
    IN  {[node |-> [self EXCEPT !.peer_data = [peer_data EXCEPT ![src] = c.map]],
          out |-> <<>>,
          ok |-> c.ok] : c \in confirm_received(marked, data_i_received_from_you)}

\* Gossip arm as a whole; no reply is sent
record_gossip(self, src, data_you_need, data_i_received_from_you) ==
    LET peer_data == entry_or_insert(self.peer_data, src)
        data == new_data(data_you_need, self.seen_data)
        marked == mark_received(peer_data[src], data)
    IN  {[node |-> [self EXCEPT !.seen_data = @ \cup data,
                                !.peer_data = [peer_data EXCEPT ![src] = c.map]],
          out |-> <<>>,
          ok |-> c.ok] : c \in confirm_received(marked, data_i_received_from_you)}

\* handle_msg with the Topology arm's commented-out code enabled: the peers
\* missing from the topology are removed, those listed for this node added
handle_msg_adopting(self, msg) ==
    LET m == msg.body.msg
        kept == [p \in DOMAIN self.peer_data \cap DOMAIN m.topology |-> self.peer_data[p]]
        added == Range(m.topology[self.id])
    IN  CASE m.type = "broadcast" ->
                {reply([self EXCEPT !.seen_data = record_local(@, m.message)],
                       msg, [type |-> "broadcast_ok"])}
          [] m.type = "read" -> {reply(self, msg, read_payload(self))}
          [] m.type = "topology" ->
                IF self.id \in DOMAIN m.topology
                THEN {reply([self EXCEPT !.peer_data =
                                [p \in DOMAIN kept \cup added |->
                                    IF p \in DOMAIN kept THEN kept[p] ELSE EmptyMap]],
                            msg, [type |-> "topology_ok"])}
                ELSE {[node |-> [self EXCEPT !.peer_data = kept], out |-> <<>>, ok |-> FALSE]}
          [] m.type = "gossip" ->
                record_gossip(self, msg.src, m.data_you_need, m.data_i_received_from_you)
          [] OTHER -> {[node |-> self, out |-> <<>>, ok |-> TRUE]}

\* handle_msg: the outcomes of handling msg, each the node afterwards, the
\* messages written and whether the handler returned (ok) or panicked
handle_msg(self, msg) ==
    LET m == msg.body.msg
    IN  CASE m.type = "broadcast" ->
                {reply([self EXCEPT !.seen_data = record_local(@, m.message)],
                       msg, [type |-> "broadcast_ok"])}
          [] m.type = "read" -> {reply(self, msg, read_payload(self))}
          [] m.type = "topology" -> {reply(self, msg, [type |-> "topology_ok"])}
          [] m.type = "gossip" ->
                record_gossip(self, msg.src, m.data_you_need, m.data_i_received_from_you)
          [] OTHER -> {[node |-> self, out |-> <<>>, ok |-> TRUE]}

---------------------------------------------------------------------------
(* Gossip scheduler: BroadcastNode::bg_task.                               *)

\* a tick that skips the backfill loop
backfill_skipped(peer_data, seen_data) == peer_data

\* the backfill loop inserting without the contains_key test
backfill_overwriting(peer_data, seen_data) ==
    [p \in DOMAIN peer_data |->
        [d \in DOMAIN peer_data[p] \cup seen_data |->
            IF d \in seen_data THEN SentUnconfirmed ELSE peer_data[p][d]]]

\* first loop: every seen datum a peer's map lacks is entered as SentUnconfirmed
backfill(peer_data, seen_data) ==
    [p \in DOMAIN peer_data |->
        [d \in DOMAIN peer_data[p] \cup seen_data |->
            IF d \in DOMAIN peer_data[p] THEN peer_data[p][d] ELSE SentUnconfirmed]]

\* the status filter dropped: every datum of the map is selected
with_status_any(data_state, s) == DOMAIN data_state

\* the datums of a peer's map with the given status
with_status(data_state, s) == {d \in DOMAIN data_state : data_state[d] = s}

\* the send loop acknowledging every datum that is not SentUnconfirmed
gossip_msg_acking_confirmed(self, peer, data_state, count) ==
    Message(self.id, peer,
            Body(Some(self.msg_id + count), None,
                 [type |-> "gossip",
                  data_you_need |-> with_status(data_state, SentUnconfirmed),
                  data_i_received_from_you |->
                      DOMAIN data_state \ with_status(data_state, SentUnconfirmed)]))

\* the send loop with the two status filters exchanged
gossip_msg_swapped(self, peer, data_state, count) ==
    Message(self.id, peer,
            Body(Some(self.msg_id + count), None,
                 [type |-> "gossip",
                  data_you_need |-> with_status(data_state, ReceivedUnconfirmed),
                  data_i_received_from_you |-> with_status(data_state, SentUnconfirmed)]))

\* the gossip message the send loop builds for peer at position count
gossip_msg(self, peer, data_state, count) ==
    Message(self.id, peer,
            Body(Some(self.msg_id + count), None,
                 [type |-> "gossip",
                  data_you_need |-> with_status(data_state, SentUnconfirmed),
                  data_i_received_from_you |-> with_status(data_state, ReceivedUnconfirmed)]))

\* bg_task without the closing msg_id += peer_data.len()
bg_task_static_id(self) ==
    LET data == backfill(self.peer_data, self.seen_data)
        n == Cardinality(DOMAIN data)
    IN  {[node |-> [self EXCEPT !.peer_data = data],
          out |-> [count \in 1..n |->
                      gossip_msg(self, order[count], data[order[count]], count - 1)],
          ok |-> TRUE] : order \in Orders(DOMAIN data)}

\* bg_task: backfill, one gossip message per peer in the HashMap's iteration
\* order, then msg_id += peer_data.len()
bg_task(self) ==
    LET data == backfill(self.peer_data, self.seen_data)
        n == Cardinality(DOMAIN data)
    IN  {[node |-> [self EXCEPT !.peer_data = data, !.msg_id = @ + n],
          out |-> [count \in 1..n |->
                      gossip_msg(self, order[count], data[order[count]], count - 1)],
          ok |-> TRUE] : order \in Orders(DOMAIN data)}

---------------------------------------------------------------------------
(* Runtime: MsgHandler::run.                                               *)

\* the handshake: new(PartialNode{msg_id: 0, ..}) and the init_ok reply
run_init(init_msg) ==
    reply(new([id |-> init_msg.body.msg.node_id,
               node_ids |-> init_msg.body.msg.node_ids,
               msg_id |-> 0]),
          init_msg, [type |-> "init_ok"])

InitMsg(client, id, node_ids) ==
    Message(client, id, Body(Some(1), None,
            [type |-> "init", node_id |-> id, node_ids |-> node_ids]))

---------------------------------------------------------------------------
(* Spec: one node, n7 of the 25-node roster, and everything its input can  *)
(* carry.                                                                  *)

SelfId == "n7"
Stranger == "n3"
Client == "c1"
Datums == 1..MaxDatum
SelfPeers == PeerSet(SelfId, Roster(25))

\* msg_id of a request, and the node a request may be addressed to
ReqIds == {None, Some(1)}
Dests == {SelfId, Stranger}

Requests(payloads) ==
    {Message(Client, dst, Body(id, None, p)) : dst \in Dests, id \in ReqIds, p \in payloads}

BroadcastMsgs == Requests({[type |-> "broadcast", message |-> d] : d \in Datums})
ReadMsgs == Requests({[type |-> "read"]})
TopologyMsgs ==
    Requests({[type |-> "topology", topology |-> t] :
                 t \in {[n \in {SelfId} |-> <<Stranger>>], [n \in {} |-> <<>>]}})
\* gossip arrives from the trunk of n7 (a peer) and from a node that is no peer
GossipSrcs == {NodeName(node_group(SelfId)), Stranger}
GossipMsgs ==
    {Message(src, SelfId, Body(Some(1), None,
             [type |-> "gossip", data_you_need |-> need, data_i_received_from_you |-> recv])) :
        src \in GossipSrcs, need \in SUBSET Datums, recv \in SUBSET Datums}
ReplyMsgs ==
    {Message(Client, SelfId, Body(Some(1), Some(1), p)) :
        p \in {[type |-> "broadcast_ok"], [type |-> "topology_ok"],
               [type |-> "read_ok", messages |-> {}]}}

Init ==
    LET o == run_init(InitMsg(Client, SelfId, Roster(25)))
    IN  /\ nodes = [n \in {SelfId} |-> o.node]
        /\ proc = [n \in {SelfId} |-> "Running"]
        /\ event = [kind |-> "Init"]
        /\ sent = o.out
        /\ acked = [n \in {SelfId} |-> {}]
        /\ net = {}
        /\ quiet = FALSE
        /\ removed = {}
        /\ origin = SelfId
        /\ reach = {}
        /\ hops = 0
        /\ input = <<>>
        /\ reader = "Reading"
        /\ queue = <<>>
        /\ enqueued = <<>>
        /\ handled = <<>>
        /\ roster = Roster(25)

\* the ReceivedMsg arm of the consumer loop: handle_msg runs on msg
on_received(n, msg) ==
    /\ proc[n] = "Running"
    /\ \E o \in handle_msg(nodes[n], msg) :
          /\ o.node.msg_id <= MaxMsgId
          /\ nodes' = [nodes EXCEPT ![n] = o.node]
          /\ proc' = [proc EXCEPT ![n] = IF o.ok THEN "Running" ELSE "Panicked"]
          /\ sent' = o.out
    /\ event' = [kind |-> "ReceivedMsg", msg |-> msg]
    /\ acked' = [acked EXCEPT ![n] =
                    IF msg.body.msg.type = "broadcast" THEN @ \cup {msg.body.msg.message} ELSE @]
    /\ UNCHANGED <<net, quiet>>
    /\ UNCHANGED topoVars

\* the TriggerBgTask arm of the consumer loop: bg_task runs
on_trigger(n) ==
    /\ proc[n] = "Running"
    /\ \E o \in bg_task(nodes[n]) :
          /\ o.node.msg_id <= MaxMsgId
          /\ nodes' = [nodes EXCEPT ![n] = o.node]
          /\ sent' = o.out
    /\ event' = [kind |-> "TriggerBgTask"]
    /\ UNCHANGED <<proc, acked, net, quiet>>
    /\ UNCHANGED topoVars

\* the consumer loop takes Events::ReceivedMsg(msg) and runs handle_msg
Receive(n, msg) == on_received(n, msg) /\ UNCHANGED runVars

\* the consumer loop takes Events::TriggerBgTask and runs bg_task
Tick(n) == on_trigger(n) /\ UNCHANGED runVars

HandleBroadcast == \E msg \in BroadcastMsgs : Receive(SelfId, msg)
HandleRead == \E msg \in ReadMsgs : Receive(SelfId, msg)
HandleTopology == \E msg \in TopologyMsgs : Receive(SelfId, msg)
HandleGossip == \E msg \in GossipMsgs : Receive(SelfId, msg)
HandleReply == \E msg \in ReplyMsgs : Receive(SelfId, msg)
HandleTick == Tick(SelfId)

Next ==
    \/ HandleBroadcast
    \/ HandleRead
    \/ HandleTopology
    \/ HandleGossip
    \/ HandleReply
    \/ HandleTick

Spec == Init /\ [][Next]_vars

---------------------------------------------------------------------------
(* Properties of one node (Spec).                                          *)

Self == nodes[SelfId]
IsMsg(type) == event.kind = "ReceivedMsg" /\ event.msg.body.msg.type = type

\* C2: a read is answered with read_ok carrying exactly seen_data, and that
\* set holds every datum whose broadcast this node has handled before,
\* whatever was handled in between.
ReadReturnsSeen ==
    IsMsg("read") =>
        /\ Len(sent) = 1
        /\ sent[1].body.msg = [type |-> "read_ok", messages |-> Self.seen_data]
        /\ acked[SelfId] \subseteq sent[1].body.msg.messages

\* a read handled after a broadcast, a gossip that brought another datum and a tick
ReadAfterBroadcastAndGossip ==
    /\ IsMsg("read")
    /\ acked[SelfId] # {}
    /\ Self.seen_data \ acked[SelfId] # {}
    /\ \E p \in DOMAIN Self.peer_data :
          \E d \in DOMAIN Self.peer_data[p] : Self.peer_data[p][d] = SentUnconfirmed

\* C3: no event removes a datum from seen_data: the set after a step
\* contains the set before it.
SeenMonotone ==
    [][\A n \in DOMAIN nodes : nodes[n].seen_data \subseteq nodes'[n].seen_data]_vars

\* a gossip message has added a datum to a seen_data that held another one
GossipGrewSeen ==
    /\ IsMsg("gossip")
    /\ \E d \in event.msg.body.msg.data_you_need :
          /\ event.msg.src \in DOMAIN Self.peer_data
          /\ d \in DOMAIN Self.peer_data[event.msg.src]
          /\ Self.peer_data[event.msg.src][d] = ReceivedUnconfirmed
    /\ Self.seen_data \ event.msg.body.msg.data_you_need # {}

\* C4: a (peer, datum) entry that is Confirmed is Confirmed after every step.
ConfirmedStays ==
    [][\A n \in DOMAIN nodes : \A p \in DOMAIN nodes[n].peer_data :
          \A d \in DOMAIN nodes[n].peer_data[p] :
             nodes[n].peer_data[p][d] = Confirmed =>
                /\ p \in DOMAIN nodes'[n].peer_data
                /\ d \in DOMAIN nodes'[n].peer_data[p]
                /\ nodes'[n].peer_data[p][d] = Confirmed]_vars

\* the peer of a Confirmed entry has gossiped the datum again in data_you_need
\* (without acknowledging it in the same message) and the entry is Confirmed
ConfirmedSurvivedResend ==
    /\ IsMsg("gossip")
    /\ proc[SelfId] = "Running"
    /\ \E d \in event.msg.body.msg.data_you_need \ event.msg.body.msg.data_i_received_from_you :
          /\ d \in DOMAIN Self.peer_data[event.msg.src]
          /\ Self.peer_data[event.msg.src][d] = Confirmed

\* the datums with status ReceivedUnconfirmed, per peer
ReceivedEntries(self) ==
    {<<p, d>> \in (DOMAIN self.peer_data) \X Datums :
        d \in DOMAIN self.peer_data[p] /\ self.peer_data[p][d] = ReceivedUnconfirmed}

SameData(a, b) == a.seen_data = b.seen_data /\ a.peer_data = b.peer_data

\* C5: in every state the node reaches, a broadcast of a known datum changes
\* neither seen_data nor the table, a gossip message that needs only known
\* datums leaves seen_data as it is and adds no ReceivedUnconfirmed entry,
\* and handling a broadcast or gossip message a second time right after the
\* first changes neither seen_data nor the table.
UnionIdempotent ==
    proc[SelfId] = "Running" =>
        /\ \A msg \in BroadcastMsgs : \A o \in handle_msg(Self, msg) :
              /\ msg.body.msg.message \in Self.seen_data => SameData(o.node, Self)
              /\ \A o2 \in handle_msg(o.node, msg) : SameData(o2.node, o.node)
        /\ \A msg \in GossipMsgs : \A o \in handle_msg(Self, msg) :
              /\ msg.body.msg.data_you_need \subseteq Self.seen_data =>
                    /\ o.node.seen_data = Self.seen_data
                    /\ ReceivedEntries(o.node) \subseteq ReceivedEntries(Self)
              /\ o.ok => \A o2 \in handle_msg(o.node, msg) : o2.ok /\ SameData(o2.node, o.node)

\* the node has handled a gossip message whose data_you_need it knew already
\* (the sender's map has no entry for any of them)
KnownGossipHandled ==
    /\ IsMsg("gossip")
    /\ proc[SelfId] = "Running"
    /\ event.msg.body.msg.data_you_need # {}
    /\ event.msg.body.msg.data_you_need \subseteq Self.seen_data
    /\ \A d \in event.msg.body.msg.data_you_need : d \notin DOMAIN Self.peer_data[event.msg.src]

\* C8: the key set of peer_data, and with it the destinations of a tick's
\* gossip, is the peer set computed at startup.
PeerSetFixed ==
    /\ DOMAIN Self.peer_data = SelfPeers
    /\ event.kind = "TriggerBgTask" => {sent[i].dst : i \in DOMAIN sent} = SelfPeers

\* C9: a handled broadcast, read or topology request writes exactly one
\* message, of the matching _ok type, in reply to the request's msg_id, from
\* the request's dest to the request's src; a handled gossip writes nothing.
ReplyContract ==
    event.kind = "ReceivedMsg" =>
        LET req == event.msg
            type == req.body.msg.type
        IN  /\ type \in {"broadcast", "read", "topology"} =>
                  /\ Len(sent) = 1
                  /\ sent[1].body.msg.type = type \o "_ok"
                  /\ sent[1].body.in_reply_to = req.body.msg_id
                  /\ sent[1].src = req.dst
                  /\ sent[1].dst = req.src
            /\ type = "gossip" => sent = <<>>

\* a request addressed to another node id than this node's has been answered
RepliedToMisaddressed ==
    /\ IsMsg("broadcast")
    /\ event.msg.dst # SelfId
    /\ event.msg.body.msg_id = Some(1)
    /\ Len(sent) = 1

\* the datums of data_i_received_from_you that have no entry in the sender's
\* map once data_you_need has been applied
Untracked(self, msg) ==
    LET m == msg.body.msg
        had == IF msg.src \in DOMAIN self.peer_data
               THEN DOMAIN self.peer_data[msg.src] ELSE {}
    IN  m.data_i_received_from_you \ (had \cup (m.data_you_need \ self.seen_data))

\* C10: a step that handles a gossip message acknowledging a datum with no
\* entry leaves the process panicked and the entry absent, and a panicked
\* process takes no further step (handles nothing, sends nothing).
ViolationFatal ==
    /\ [][\A msg \in GossipMsgs :
            (/\ event' = [kind |-> "ReceivedMsg", msg |-> msg]
             /\ proc[SelfId] = "Running"
             /\ Untracked(Self, msg) # {}) =>
                /\ proc'[SelfId] = "Panicked"
                /\ \A d \in Untracked(Self, msg) :
                      d \notin DOMAIN nodes'[SelfId].peer_data[msg.src]]_vars
    /\ [][proc[SelfId] = "Running"]_vars

\* the node has panicked on a peer's acknowledgement of a datum it never sent
PanickedOnPeerAck ==
    /\ proc[SelfId] = "Panicked"
    /\ IsMsg("gossip")
    /\ event.msg.src \in SelfPeers
    /\ Self.seen_data # {}

\* C17: a step that handles a topology message, whatever its payload, writes
\* topology_ok and leaves seen_data, the keys of peer_data and every status
\* as they were; of the node's fields only msg_id changes.
TopologyIgnored ==
    [][\A msg \in TopologyMsgs :
          event' = [kind |-> "ReceivedMsg", msg |-> msg] =>
             /\ Len(sent') = 1
             /\ sent'[1].body.msg = [type |-> "topology_ok"]
             /\ nodes'[SelfId] = [Self EXCEPT !.msg_id = @ + 1]
             /\ proc' = proc]_vars

\* a topology message that lists a stranger as this node's only neighbour has
\* been handled by a node that holds data and statuses
TopologyHandledWithData ==
    /\ IsMsg("topology")
    /\ event.msg.body.msg.topology = [n \in {SelfId} |-> <<Stranger>>]
    /\ Self.seen_data # {}
    /\ DOMAIN Self.peer_data = SelfPeers
    /\ \E p \in SelfPeers : \E d \in DOMAIN Self.peer_data[p] :
          Self.peer_data[p][d] = ReceivedUnconfirmed

\* the datums whose status in this node's map of peer p is s
StatusSet(p, s) == {d \in DOMAIN Self.peer_data[p] : Self.peer_data[p][d] = s}

\* C18: the messages of a handled tick are one gossip message per key of
\* peer_data, empty or not; the message to p carries in data_you_need exactly
\* the datums that are SentUnconfirmed for p after the backfill and in
\* data_i_received_from_you exactly those that are ReceivedUnconfirmed, so a
\* Confirmed datum is in neither.
TickOutput ==
    event.kind = "TriggerBgTask" =>
        /\ Len(sent) = Cardinality(DOMAIN Self.peer_data)
        /\ {sent[i].dst : i \in DOMAIN sent} = DOMAIN Self.peer_data
        /\ \A i \in DOMAIN sent :
              LET m == sent[i].body.msg
                  p == sent[i].dst
              IN  /\ sent[i].src = Self.id
                  /\ m.type = "gossip"
                  /\ m.data_you_need = StatusSet(p, SentUnconfirmed)
                  /\ m.data_i_received_from_you = StatusSet(p, ReceivedUnconfirmed)
                  /\ StatusSet(p, Confirmed) \cap
                        (m.data_you_need \cup m.data_i_received_from_you) = {}

\* a tick has written to one peer a message that leaves out a Confirmed datum
\* and carries a SentUnconfirmed one
TickSkippedConfirmed ==
    /\ event.kind = "TriggerBgTask"
    /\ \E i \in DOMAIN sent :
          /\ StatusSet(sent[i].dst, Confirmed) # {}
          /\ sent[i].body.msg.data_you_need # {}

\* C20: init_ok carries msg_id 0, and every step writes its k messages with
\* the ids msg_id, msg_id + 1, .., msg_id + k - 1 in send order and advances
\* msg_id by k (k = 1 for a reply, the number of peers for a tick), so the
\* ids a node writes are strictly increasing.
MsgIdsIncrease ==
    /\ event.kind = "Init" => Len(sent) = 1 /\ sent[1].body.msg_id = Some(0) /\ Self.msg_id = 1
    /\ [][/\ \A i \in DOMAIN sent' : sent'[i].body.msg_id = Some(Self.msg_id + i - 1)
          /\ nodes'[SelfId].msg_id = Self.msg_id + Len(sent')]_vars

\* a tick wrote three gossip messages after a reply had been written
TickUsedThreeIds ==
    /\ event.kind = "TriggerBgTask"
    /\ Len(sent) = 3
    /\ Self.msg_id = 5
    /\ acked[SelfId] # {}

---------------------------------------------------------------------------
(* RuntimeSpec: node n7 with the three tasks of MsgHandler::run after the  *)
(* handshake.  The reader task parses the lines of standard input into     *)
(* the channel, the timer task puts a TriggerBgTask into it after every    *)
(* sleep, and the consumer loop takes the events out one by one.  Both     *)
(* producers are spawned tasks: a panic in one ends that task only, and    *)
(* the Sender a task owns is dropped when the task ends.                   *)

\* mpsc::channel(10)
CHANNEL_CAPACITY == 10

\* Sender::send: the event goes behind those already in the channel
send(channel, ev) == Append(channel, ev)

\* a receiver that yields the event sent last
recv_newest(channel) ==
    [event |-> channel[Len(channel)], rest |-> SubSeq(channel, 1, Len(channel) - 1)]

\* Receiver::recv on a channel that holds events: the oldest one is yielded
recv(channel) == [event |-> Head(channel), rest |-> Tail(channel)]

\* a line of standard input: one that parses as a message, and one that does not
Line(msg) == [json |-> TRUE, msg |-> msg]
BadLine == [json |-> FALSE]

\* what standard input holds after the init line: up to MaxLines lines, then
\* end of file
RequestLines ==
    {Line(Message(Client, SelfId, Body(Some(1), None, p))) :
        p \in {[type |-> "broadcast", message |-> 1], [type |-> "read"]}}
Inputs == UNION {[1..k -> RequestLines \cup {BadLine}] : k \in 0..MaxLines}

RuntimeInit ==
    LET o == run_init(InitMsg(Client, SelfId, Roster(25)))
    IN  /\ nodes = [n \in {SelfId} |-> o.node]
        /\ proc = [n \in {SelfId} |-> "Running"]
        /\ event = [kind |-> "Init"]
        /\ sent = o.out
        /\ acked = [n \in {SelfId} |-> {}]
        /\ net = {}
        /\ quiet = FALSE
        /\ removed = {}
        /\ origin = SelfId
        /\ reach = {}
        /\ hops = 0
        /\ input \in Inputs
        /\ reader = "Reading"
        /\ queue = <<>>
        /\ enqueued = <<>>
        /\ handled = <<>>
        /\ roster = Roster(25)

\* reader task, Ok(Some(line)): the line parses and tx.send puts the message
\* into the channel (the send waits while the channel is full)
ReadLine ==
    /\ proc[SelfId] = "Running"
    /\ reader = "Reading"
    /\ input # <<>>
    /\ Head(input).json
    /\ Len(queue) < CHANNEL_CAPACITY
    /\ queue' = send(queue, [kind |-> "ReceivedMsg", msg |-> Head(input).msg])
    /\ enqueued' = Append(enqueued, [kind |-> "ReceivedMsg", msg |-> Head(input).msg])
    /\ input' = Tail(input)
    /\ UNCHANGED <<reader, handled>>
    /\ UNCHANGED nodeVars
    /\ UNCHANGED topoVars

\* reader task, Ok(Some(line)): serde_json::from_str(&line).unwrap() panics
\* in the spawned task, which ends
ReadBadLine ==
    /\ proc[SelfId] = "Running"
    /\ reader = "Reading"
    /\ input # <<>>
    /\ ~Head(input).json
    /\ reader' = "Panicked"
    /\ input' = Tail(input)
    /\ UNCHANGED <<queue, enqueued, handled>>
    /\ UNCHANGED nodeVars
    /\ UNCHANGED topoVars

\* reader task, Ok(None): end of input, the loop breaks and the task ends
ReadEof ==
    /\ proc[SelfId] = "Running"
    /\ reader = "Reading"
    /\ input = <<>>
    /\ reader' = "Ended"
    /\ UNCHANGED <<input, queue, enqueued, handled>>
    /\ UNCHANGED nodeVars
    /\ UNCHANGED topoVars

\* timer task: the sleep is over and tx2.send puts TriggerBgTask into the
\* channel (the send waits while the channel is full)
TimerFire ==
    /\ proc[SelfId] = "Running"
    /\ Len(queue) < CHANNEL_CAPACITY
    /\ queue' = send(queue, [kind |-> "TriggerBgTask"])
    /\ enqueued' = Append(enqueued, [kind |-> "TriggerBgTask"])
    /\ UNCHANGED <<input, reader, handled>>
    /\ UNCHANGED nodeVars
    /\ UNCHANGED topoVars

\* consumer loop: rx.recv() yields a ReceivedMsg
ConsumeMsg ==
    /\ queue # <<>>
    /\ recv(queue).event.kind = "ReceivedMsg"
    /\ on_received(SelfId, recv(queue).event.msg)
    /\ queue' = recv(queue).rest
    /\ handled' = Append(handled, recv(queue).event)
    /\ UNCHANGED <<input, reader, enqueued>>

\* consumer loop: rx.recv() yields a TriggerBgTask
ConsumeTick ==
    /\ queue # <<>>
    /\ recv(queue).event.kind = "TriggerBgTask"
    /\ on_trigger(SelfId)
    /\ queue' = recv(queue).rest
    /\ handled' = Append(handled, recv(queue).event)
    /\ UNCHANGED <<input, reader, enqueued>>

RuntimeNext ==
    \/ ReadLine
    \/ ReadBadLine
    \/ ReadEof
    \/ TimerFire
    \/ ConsumeMsg
    \/ ConsumeTick

RuntimeSpec == RuntimeInit /\ [][RuntimeNext]_vars

\* C11: once the reader task has stopped, at the end of input or on a line
\* that does not parse, no step handles an event or writes a message.
ReaderStopFatal ==
    [][reader # "Reading" => UNCHANGED <<nodes, event, sent>>]_vars

\* the outcomes of running the handler of event ev on node self to its end
Outcomes(self, ev) ==
    IF ev.kind = "ReceivedMsg" THEN handle_msg(self, ev.msg) ELSE bg_task(self)

\* C21: the events handled so far followed by those still in the channel are
\* the events sent into it, in the order they were sent: none dropped,
\* duplicated or reordered.  Every step that handles an event handles the
\* oldest one in the channel, takes exactly that one out and leaves the node
\* and the output as that event's handler leaves them when run to its end;
\* no other step touches the node or the output.
SerialFifo ==
    /\ [](enqueued = handled \o queue)
    /\ [][IF handled' # handled
          THEN /\ queue # <<>>
               /\ handled' = Append(handled, Head(queue))
               /\ queue' = Tail(queue)
               /\ event' = Head(queue)
               /\ \E o \in Outcomes(Self, Head(queue)) :
                     nodes'[SelfId] = o.node /\ sent' = o.out
          ELSE UNCHANGED <<nodes, sent, event>>]_vars

\* a request and then a tick have been handled in the order they were sent,
\* while the channel holds a tick and a request behind one another
HandledInterleaved ==
    /\ Len(handled) >= 2
    /\ handled[1].kind = "ReceivedMsg"
    /\ handled[2].kind = "TriggerBgTask"
    /\ Len(queue) >= 2
    /\ queue[1].kind # queue[2].kind

---------------------------------------------------------------------------
(* TopoSpec: the peer graph of the 25-node roster n0..n24.  Every node is  *)
(* constructed by the handshake; the graph joins a and b when new() put    *)
(* one into the other's peer_data.  Edges are removed, then the graph is   *)
(* explored from the origin one hop at a time.                             *)

AllNodes == Range(Roster(25))

\* the peer_data keys of every node of the roster
Peers25 == [a \in AllNodes |-> PeerSet(a, Roster(25))]

\* a and b are joined when one gossips to the other
Adjacent == [a \in AllNodes |-> {b \in AllNodes \ {a} : b \in Peers25[a] \/ a \in Peers25[b]}]

Edges == {{a, b} : <<a, b>> \in {<<a, b>> \in AllNodes \X AllNodes : b \in Adjacent[a]}}

Neighbours(a, gone) == {b \in Adjacent[a] : {a, b} \notin gone}

TopoInit ==
    /\ origin \in AllNodes
    /\ LET o == run_init(InitMsg(Client, origin, Roster(25)))
       IN  /\ nodes = [n \in {origin} |-> o.node]
           /\ sent = o.out
    /\ proc = [n \in {origin} |-> "Running"]
    /\ event = [kind |-> "Init"]
    /\ acked = [n \in {origin} |-> {}]
    /\ net = {}
    /\ quiet = FALSE
    /\ removed = {}
    /\ reach = {origin}
    /\ hops = 0
    /\ input = <<>>
    /\ reader = "Reading"
    /\ queue = <<>>
    /\ enqueued = <<>>
    /\ handled = <<>>
    /\ roster = Roster(25)

\* one link of the peer graph fails
RemoveEdge ==
    /\ hops = 0
    /\ Cardinality(removed) < MaxRemoved
    /\ \E e \in Edges \ removed : removed' = removed \cup {e}
    /\ UNCHANGED <<origin, reach, hops, roster>>
    /\ UNCHANGED nodeVars
    /\ UNCHANGED runVars

\* everything one more hop away from the origin is reached
Hop ==
    /\ hops < MaxHops
    /\ reach' = reach \cup UNION {Neighbours(a, removed) : a \in reach}
    /\ hops' = hops + 1
    /\ UNCHANGED <<origin, removed, roster>>
    /\ UNCHANGED nodeVars
    /\ UNCHANGED runVars

TopoNext ==
    \/ RemoveEdge
    \/ Hop

TopoSpec == TopoInit /\ [][TopoNext]_vars

\* the intact graph only: every node constructed, then explored hop by hop
WalkSpec == TopoInit /\ [][Hop]_vars

\* C6: with no edge removed every node is within 4 hops of every other, and
\* with any two edges removed within 6 hops.
TopologyBound ==
    /\ (removed = {} /\ hops >= 4) => reach = AllNodes
    /\ (Cardinality(removed) <= 2 /\ hops >= 6) => reach = AllNodes

\* the part of C6 that holds: the intact graph has diameter at most 4, and
\* with any one edge removed every node is within 6 hops of every other
SingleFailureBound ==
    /\ (removed = {} /\ hops >= 4) => reach = AllNodes
    /\ (Cardinality(removed) <= 1 /\ hops >= 6) => reach = AllNodes

\* C7: for the roster n0..n24 the peer_data that new() builds for a branch
\* node (ordinal 5..24) has exactly two keys: the trunk of its group (ordinal
\* mod 5) and one other branch node.
BranchPeers ==
    \A n \in DOMAIN nodes :
        node_num(n) >= N_GROUPS =>
            LET peers == DOMAIN nodes[n].peer_data
            IN  /\ Cardinality(peers) = 2
                /\ NodeName(node_num(n) % 5) \in peers
                /\ \E b \in peers : b # n /\ node_num(b) >= N_GROUPS

\* n7 has been constructed and peers with n2 and n12
BranchSevenBuilt ==
    /\ origin = "n7"
    /\ DOMAIN nodes["n7"].peer_data = {"n2", "n12"}
    /\ hops > 0

\* C15: the peer_data that new() builds for a trunk node t (ordinal below 5)
\* has as keys exactly the branch nodes whose ordinal mod 5 is t and the
\* trunks (t+1) mod 5 and (t-1) mod 5: no other node, and not t itself.
TrunkPeers ==
    \A n \in DOMAIN nodes :
        node_num(n) < N_GROUPS =>
            DOMAIN nodes[n].peer_data =
                {b \in AllNodes : node_num(b) >= N_GROUPS /\ node_num(b) % 5 = node_num(n)}
                \cup {NodeName((node_num(n) + 1) % 5), NodeName((node_num(n) + 4) % 5)}

\* C16: the branch node among the peer_data keys of a branch node is of
\* another group (ordinal mod 5) than the node itself.
BranchPartnerCrossGroup ==
    \A n \in DOMAIN nodes :
        node_num(n) >= N_GROUPS =>
            \A b \in DOMAIN nodes[n].peer_data :
                node_num(b) >= N_GROUPS => node_group(b) # node_group(n)

---------------------------------------------------------------------------
(* RosterSpec: a roster n0 .. n(N-1) is chosen and nodes of it are         *)
(* started; each receives the init message with its own id and the roster  *)
(* and builds its peer_data in new().                                      *)

Rosters == {Roster(n) : n \in 1..MaxRoster}

RosterInit ==
    /\ roster \in Rosters
    /\ nodes = <<>>
    /\ proc = <<>>
    /\ event = [kind |-> "Init"]
    /\ sent = <<>>
    /\ acked = <<>>
    /\ net = {}
    /\ quiet = FALSE
    /\ removed = {}
    /\ origin = NodeName(0)
    /\ reach = {}
    /\ hops = 0
    /\ input = <<>>
    /\ reader = "Reading"
    /\ queue = <<>>
    /\ enqueued = <<>>
    /\ handled = <<>>

\* the process of node id starts and handles its init message
Start(id) ==
    /\ id \notin DOMAIN nodes
    /\ Cardinality(DOMAIN nodes) < MaxStarted
    /\ LET o == run_init(InitMsg(Client, id, roster))
       IN  /\ nodes' = [n \in DOMAIN nodes \cup {id} |-> IF n = id THEN o.node ELSE nodes[n]]
           /\ sent' = o.out
    /\ proc' = [n \in DOMAIN nodes \cup {id} |-> "Running"]
    /\ acked' = [n \in DOMAIN nodes \cup {id} |-> {}]
    /\ UNCHANGED <<event, net, quiet>>
    /\ UNCHANGED topoVars
    /\ UNCHANGED runVars

RosterNext == \E id \in Range(roster) : Start(id)

RosterSpec == RosterInit /\ [][RosterNext]_vars

\* C22: of two distinct nodes of a roster, each has the other as a key of
\* the peer_data built at startup, or neither has.
PeerSymmetric ==
    \A a, b \in DOMAIN nodes :
        a # b => (b \in DOMAIN nodes[a].peer_data <=> a \in DOMAIN nodes[b].peer_data)

\* two branch nodes of a roster shorter than 25 have started and each is a
\* key of the other's peer_data
BranchPairStarted ==
    /\ Len(roster) < 25
    /\ \E a, b \in DOMAIN nodes :
          /\ a # b
          /\ node_num(a) >= N_GROUPS /\ node_num(b) >= N_GROUPS
          /\ b \in DOMAIN nodes[a].peer_data
          /\ a \in DOMAIN nodes[b].peer_data

---------------------------------------------------------------------------
(* ClusterSpec: every node of the roster n0 .. n(ClusterSize-1) runs the   *)
(* program with the peer_data its own handshake built.  A tick writes one  *)
(* gossip message to each link of the node; a link holds the last message  *)
(* written to it until it is delivered, and a message still on the link    *)
(* when the sender's next tick writes the link is lost.  The message ids   *)
(* are not tracked here, no handler reads them: msg_id stays 0 and the     *)
(* messages on the links carry none.                                       *)

ClusterRoster == Roster(ClusterSize)
ClusterNodes == Range(ClusterRoster)
ClusterDatums == 1..ClusterMaxDatum

\* the links: from every node to every key of its peer_data
ClusterLinks == {<<a, b>> \in ClusterNodes \X ClusterNodes : b \in PeerSet(a, ClusterRoster)}

forget_id(node) == [node EXCEPT !.msg_id = 0]
on_link(msg) == [msg EXCEPT !.body.msg_id = None]

ClusterInit ==
    /\ nodes = [n \in ClusterNodes |->
                   forget_id(run_init(InitMsg(Client, n, ClusterRoster)).node)]
    /\ proc = [n \in ClusterNodes |-> "Running"]
    /\ event = [kind |-> "Init"]
    /\ sent = <<>>
    /\ acked = [n \in ClusterNodes |-> {}]
    /\ net = {}
    /\ quiet = FALSE
    /\ removed = {}
    /\ origin = NodeName(0)
    /\ reach = {}
    /\ hops = 0
    /\ input = <<>>
    /\ reader = "Reading"
    /\ queue = <<>>
    /\ enqueued = <<>>
    /\ handled = <<>>
    /\ roster = ClusterRoster

\* a client sends node n a broadcast request, which n handles
ClientBroadcast(n, d) ==
    /\ ~quiet
    /\ proc[n] = "Running"
    /\ \E o \in handle_msg(nodes[n],
                           Message(Client, n, Body(Some(1), None,
                                   [type |-> "broadcast", message |-> d]))) :
          nodes' = [nodes EXCEPT ![n] = forget_id(o.node)]
    /\ acked' = [acked EXCEPT ![n] = @ \cup {d}]
    /\ UNCHANGED <<proc, event, sent, net, quiet>>
    /\ UNCHANGED topoVars
    /\ UNCHANGED runVars

\* the clients stop sending broadcast requests
Quiesce ==
    /\ ~quiet
    /\ quiet' = TRUE
    /\ UNCHANGED <<nodes, proc, event, sent, acked, net>>
    /\ UNCHANGED topoVars
    /\ UNCHANGED runVars

\* the timer event of node n is handled: bg_task writes every link of n
ClusterTick(n) ==
    /\ proc[n] = "Running"
    /\ \E o \in {[node |-> forget_id(t.node),
                   links |-> {on_link(t.out[i]) : i \in DOMAIN t.out}] : t \in bg_task(nodes[n])} :
          /\ nodes' = [nodes EXCEPT ![n] = o.node]
          /\ net' = {m \in net : m.src # n} \cup o.links
    /\ UNCHANGED <<proc, event, sent, acked, quiet>>
    /\ UNCHANGED topoVars
    /\ UNCHANGED runVars

\* the message on the link from src to dst reaches dst, which handles it
ClusterDeliver(src, dst) ==
    /\ proc[dst] = "Running"
    /\ \E m \in net :
          /\ m.src = src
          /\ m.dst = dst
          /\ \E o \in handle_msg(nodes[dst], m) :
                /\ nodes' = [nodes EXCEPT ![dst] = forget_id(o.node)]
                /\ proc' = [proc EXCEPT ![dst] = IF o.ok THEN "Running" ELSE "Panicked"]
          /\ net' = net \ {m}
    /\ UNCHANGED <<event, sent, acked, quiet>>
    /\ UNCHANGED topoVars
    /\ UNCHANGED runVars

ClusterNext ==
    \/ \E n \in ClusterNodes, d \in ClusterDatums : ClientBroadcast(n, d)
    \/ Quiesce
    \/ \E n \in ClusterNodes : ClusterTick(n)
    \/ \E link \in ClusterLinks : ClusterDeliver(link[1], link[2])

ClusterSpec == ClusterInit /\ [][ClusterNext]_vars

\* the timer of every node keeps firing and every link keeps delivering
ClusterFairness ==
    /\ \A n \in ClusterNodes : WF_vars(ClusterTick(n))
    /\ \A link \in ClusterLinks : WF_vars(ClusterDeliver(link[1], link[2]))

FairClusterSpec == ClusterSpec /\ ClusterFairness

AllBroadcast == UNION {acked[n] : n \in DOMAIN acked}
Converged == \A n \in DOMAIN nodes : nodes[n].seen_data = AllBroadcast

\* C1: once the clients have stopped broadcasting, the seen_data of every
\* node eventually equals the union of the datums broadcast to any node.
Convergence == quiet ~> Converged

\* a datum broadcast to n0 alone has reached the far end of the line
ConvergedAcrossHops ==
    /\ quiet
    /\ Converged
    /\ acked[NodeName(0)] # {}
    /\ \A n \in DOMAIN acked : n # NodeName(0) => acked[n] = {}
    /\ Cardinality(DOMAIN nodes) >= 3

\* the status node a holds for datum d of peer b, None when it holds no entry
StatusOf(a, b, d) ==
    IF b \in DOMAIN nodes[a].peer_data /\ d \in DOMAIN nodes[a].peer_data[b]
    THEN Some(nodes[a].peer_data[b][d])
    ELSE None

\* the pairs of distinct nodes that gossip to each other
Neighbouring == {link \in ClusterLinks : link[1] # link[2]}

\* every entry two neighbouring nodes hold for each other is Confirmed, and
\* the messages on the links between them carry two empty sets
AllConfirmed ==
    /\ \A link \in Neighbouring : \A d \in DOMAIN nodes[link[1]].peer_data[link[2]] :
          StatusOf(link[1], link[2], d) = Some(Confirmed)
    /\ \A m \in net :
          m.src # m.dst =>
             /\ m.body.msg.data_you_need = {}
             /\ m.body.msg.data_i_received_from_you = {}

\* C13: once the clients have stopped broadcasting, every entry two
\* neighbouring nodes hold for each other eventually is Confirmed and the
\* gossip between them carries empty sets.
ResendingStops == quiet ~> AllConfirmed

\* a holds d as Confirmed for b, and b holds d as Confirmed for a
BothConfirmed(a, b, d) ==
    StatusOf(a, b, d) = Some(Confirmed) /\ StatusOf(b, a, d) = Some(Confirmed)

\* the statuses two neighbouring nodes end with for a datum: Confirmed at the
\* one that told the other, ReceivedUnconfirmed at the one that learned it;
\* SentUnconfirmed on both sides when neither learned it from the other
Settled ==
    \A link \in Neighbouring : \A d \in AllBroadcast :
        <<StatusOf(link[1], link[2], d), StatusOf(link[2], link[1], d)>> \in
            {<<Some(Confirmed), Some(ReceivedUnconfirmed)>>,
             <<Some(ReceivedUnconfirmed), Some(Confirmed)>>,
             <<Some(SentUnconfirmed), Some(SentUnconfirmed)>>}

\* C13, amended: two neighbouring nodes never both hold a datum as Confirmed
\* for each other, and once the clients have stopped broadcasting every
\* datum eventually is Confirmed on the side that told it and
\* ReceivedUnconfirmed on the side that learned it, or SentUnconfirmed on
\* both sides.
ResendingSettles ==
    /\ [](\A link \in Neighbouring : \A d \in ClusterDatums :
             ~BothConfirmed(link[1], link[2], d))
    /\ quiet ~> Settled

\* a datum that two neighbours learned independently and a third node
\* learned from one of them has settled
SettledBothWays ==
    /\ quiet
    /\ Settled
    /\ \E link \in Neighbouring : \E d \in AllBroadcast :
          StatusOf(link[1], link[2], d) = Some(SentUnconfirmed)
    /\ \E link \in Neighbouring : \E d \in AllBroadcast :
          StatusOf(link[1], link[2], d) = Some(Confirmed)

\* every peer's map of every node has an entry for every datum the node has seen
AllBackfilled ==
    \A n \in ClusterNodes : \A d \in nodes[n].seen_data :
        \A p \in DOMAIN nodes[n].peer_data : StatusOf(n, p, d) # None

\* C19: a step that handles a tick leaves every peer's map with an entry for
\* every datum of seen_data, SentUnconfirmed where the map had none and the
\* former status where it had one; and with the ticks firing forever, from
\* any state on a state follows in which every datum of every seen_data has
\* an entry in every peer's map (seen_data and the maps only grow, so each
\* datum that has entered seen_data has its entries from then on).
BackfillComplete ==
    /\ [][\A n \in ClusterNodes :
             ClusterTick(n) =>
                \A p \in DOMAIN nodes'[n].peer_data : \A d \in nodes'[n].seen_data :
                    /\ d \in DOMAIN nodes'[n].peer_data[p]
                    /\ nodes'[n].peer_data[p][d] =
                          IF StatusOf(n, p, d) = None
                          THEN SentUnconfirmed
                          ELSE nodes[n].peer_data[p][d]]_vars
    /\ []<>AllBackfilled

\* a tick has added a SentUnconfirmed entry to a map that holds the datum as
\* ReceivedUnconfirmed for another peer
BackfilledBesideReceived ==
    \E n \in DOMAIN nodes : \E d \in nodes[n].seen_data :
        /\ \A p \in DOMAIN nodes[n].peer_data : StatusOf(n, p, d) # None
        /\ \E p, q \in DOMAIN nodes[n].peer_data :
              /\ StatusOf(n, p, d) = Some(ReceivedUnconfirmed)
              /\ StatusOf(n, q, d) = Some(SentUnconfirmed)

---------------------------------------------------------------------------
(* AsyncClusterSpec: the same cluster on a network that keeps every gossip *)
(* message ever written.  A message on it may be handled at any later      *)
(* time, after messages written later, any number of times, or never:      *)
(* delay, reordering, duplication and loss.                                *)

\* the timer event of node n is handled: bg_task writes one message per peer
AsyncTick(n) ==
    /\ proc[n] = "Running"
    /\ \E t \in bg_task(nodes[n]) :
          /\ nodes' = [nodes EXCEPT ![n] = forget_id(t.node)]
          /\ net' = net \cup {on_link(t.out[i]) : i \in DOMAIN t.out}
    /\ UNCHANGED <<proc, event, sent, acked, quiet>>
    /\ UNCHANGED topoVars
    /\ UNCHANGED runVars

\* a gossip message written earlier reaches its destination, which handles it
AsyncDeliver(m) ==
    /\ m \in net
    /\ proc[m.dst] = "Running"
    /\ \E o \in handle_msg(nodes[m.dst], m) :
          /\ nodes' = [nodes EXCEPT ![m.dst] = forget_id(o.node)]
          /\ proc' = [proc EXCEPT ![m.dst] = IF o.ok THEN "Running" ELSE "Panicked"]
    /\ UNCHANGED <<event, sent, acked, net, quiet>>
    /\ UNCHANGED topoVars
    /\ UNCHANGED runVars

AsyncNext ==
    \/ \E n \in ClusterNodes, d \in ClusterDatums : ClientBroadcast(n, d)
    \/ \E n \in ClusterNodes : AsyncTick(n)
    \/ \E m \in net : AsyncDeliver(m)

AsyncClusterSpec == ClusterInit /\ [][AsyncNext]_vars

\* C12: no node panics, and no gossip message that can still be handled
\* acknowledges in data_i_received_from_you a datum for which its destination
\* holds no entry in the map of the message's sender.
NoViolationAmongCorrect ==
    /\ \A n \in DOMAIN proc : proc[n] = "Running"
    /\ \A m \in net : Untracked(nodes[m.dst], m) = {}

\* an acknowledgement has been handled while an older message of the same
\* sender that does not yet acknowledge the datum can still be handled after it
AckHandledBeforeStale ==
    \E m, old \in net :
        /\ m.src # m.dst
        /\ old.src = m.src /\ old.dst = m.dst
        /\ \E d \in m.body.msg.data_i_received_from_you :
              /\ StatusOf(m.dst, m.src, d) = Some(Confirmed)
              /\ d \notin old.body.msg.data_i_received_from_you

\* C14: when a's status for (b, d) is Confirmed, d is in the seen_data of a
\* and of b, and b holds an entry for (a, d).
ConfirmedIsMutual ==
    \A a \in DOMAIN nodes : \A b \in DOMAIN nodes[a].peer_data :
        \A d \in DOMAIN nodes[a].peer_data[b] :
            nodes[a].peer_data[b][d] = Confirmed =>
                /\ d \in nodes[a].seen_data
                /\ d \in nodes[b].seen_data
                /\ StatusOf(b, a, d) # None

\* a datum has been confirmed on both hops of the line
ConfirmedOnBothHops ==
    \E d \in ClusterDatums : \E a, b, c \in DOMAIN nodes :
        /\ a # b /\ b # c /\ a # c
        /\ StatusOf(a, b, d) = Some(Confirmed)
        /\ StatusOf(b, c, d) = Some(Confirmed)

===========================================================================
